---- MODULE Spec2Model ----
(***************************************************************************)
(* Model of lldb_pyutils.py: the py3-bt command callback (py3bt), the      *)
(* PyObjectPtr wrapper it uses, and the module initialiser that registers  *)
(* the commands with the host debugger.  The host (lldb) is modelled by    *)
(* the data its accessors return and by a log of the calls made to it.     *)
(* The builtin long() used by is_null exists in Python 2 only; the model   *)
(* follows the Python 2 interpreter the script was written for.            *)
(***************************************************************************)
EXTENDS Integers, Sequences, FiniteSets, TLC

(* ---------------------------------------------------------------- bounds *)

\* Longest native stack of the thread whose frames are enumerated.
MaxFrames == 3

(* ------------------------------------------------------- host: inferior *)

\* Python's None, as returned by SBValue.GetValue() when there is no value.
None == "<None>"

\* Pointer values (SBValue.GetValueAsUnsigned) present in the inferior:
\* 0 is the null pointer, 1 and 2 are frame objects, 11 a code object,
\* 21 and 22 the objects its co_filename and co_name point to.

\* What the host answers for GetChildMemberWithName on a pointer value.
\* An unknown member, or a member of an invalid value, has unsigned value 0.
HostChild(addr, name) ==
    CASE addr = 1 /\ name = "f_code"       -> 11
      [] addr = 2 /\ name = "f_code"       -> 0
      [] addr = 11 /\ name = "co_filename" -> 21
      [] addr = 11 /\ name = "co_name"     -> 22
      [] OTHER                             -> 0

\* What the host answers for SBValue.GetValue().
HostValue(addr) ==
    CASE addr = 21 -> "a.py"
      [] addr = 22 -> None
      [] OTHER     -> None

\* A native frame: its function name and the value of its variable "f".
\* Only the exact name PyEval_EvalFrameEx is the interpreter's eval loop.
FrameKinds ==
    { [func |-> "PyEval_EvalFrameEx",  f |-> 1],
      [func |-> "PyEval_EvalFrameEx",  f |-> 0],
      [func |-> "PyEval_EvalFrameEx",  f |-> 2],
      [func |-> "PyEval_EvalFrameExx", f |-> 1] }

Stacks(n) == UNION { [1..k -> FrameKinds] : k \in 0..n }

\* The host's debuggers; lldb.debugger is the first.  Each has one selected
\* target with one process.  Threads 1 and 2 live in the first process,
\* thread 3 in the second.
LldbDebugger == "dbg0"
Debuggers == {"dbg0", "dbg1"}
Threads == {1, 2, 3}
ThreadsOf(dbg) == IF dbg = "dbg0" THEN {1, 2} ELSE {3}

\* Arguments py3bt may be called with.
DebuggerArgs == {"None"} \cup Debuggers
ThreadArgs ==
    { [kind |-> "None", id |-> 0], [kind |-> "str", id |-> 0] }
    \cup { [kind |-> "SBThread", id |-> t] : t \in Threads }

VARIABLES
    frames,      \* host: thread -> its native stack, innermost first
    selected,    \* host: debugger -> selected thread of its process
    commands,    \* host: command name -> function path it is bound to
    handled,     \* host: HandleCommand strings received from the last init
    CMDS,        \* module-level list of (command, function) pairs
    pc,          \* position of the py3bt callback
    args,        \* arguments of the running / last py3bt invocation
    thread,      \* py3bt local: thread
    num_frames,  \* py3bt local: num_frames
    pos,         \* py3bt: number of loop iterations started
    log,         \* calls py3bt made to the host during this invocation
    fields,      \* PyObjectPtr.field calls of this invocation, with outcome
    printed,     \* lines printed by this invocation
    last         \* history: the previous finished invocation, kept while
                 \* the host state and the arguments are the same

vars == <<frames, selected, commands, handled, CMDS, pc, args, thread,
          num_frames, pos, log, fields, printed, last>>

hostVars == <<frames, selected, commands, handled>>
callVars == <<pc, args, thread, num_frames, pos, log, fields, printed>>

(* ------------------------------------------------------------ host calls *)

\* One call to the host: which accessor, in the loop iteration of which
\* frame (thread, index; -1 outside the loop), on which pointer value,
\* with which string argument.
Call(c, t, i, a, s) == [call |-> c, thread |-> t, index |-> i, addr |-> a, arg |-> s]

\* SBThread.GetFrameAtIndex: an index outside the stack gives an invalid
\* frame, which has no function name and no variables.
InvalidFrame == [func |-> None, f |-> 0]
HostFrame(t, i) ==
    IF i >= 0 /\ i < Len(frames[t]) THEN frames[t][i + 1] ELSE InvalidFrame

(* ------------------------------------------------------------ PyObjectPtr *)

\* PyObjectPtr.is_null
is_null(sbval) == 0 = sbval

\* field without the null check: the host is asked whatever the pointer is.
field_unchecked(sbval, name, t, i) ==
    [raised |-> FALSE, value |-> HostChild(sbval, name),
     calls |-> << Call("GetChildMemberWithName", t, i, sbval, name) >>]

\* PyObjectPtr.field: the outcome, the value returned and the host calls made.
field(sbval, name, t, i) ==
    IF is_null(sbval)
    THEN [raised |-> TRUE, value |-> 0,
          calls |-> << Call("GetValueAsUnsigned", t, i, sbval, "") >>]
    ELSE [raised |-> FALSE, value |-> HostChild(sbval, name),
          calls |-> << Call("GetValueAsUnsigned", t, i, sbval, ""),
                       Call("GetChildMemberWithName", t, i, sbval, name) >>]

\* The record kept of one field call.
FieldRec(sbval, name, r) ==
    [obj |-> sbval, name |-> name, raised |-> r.raised, value |-> r.value]

(* ---------------------------------------------------------------- helpers *)

\* Evaluate_PyObject_AsUTF8: the expression handed to EvaluateExpression.
Evaluate_PyObject_AsUTF8(obj) == "PyUnicode_AsUTF8(" \o obj \o ")"

\* Evaluate_LineNo calling the other helper's expression.
Evaluate_LineNo_utf8(obj) == Evaluate_PyObject_AsUTF8(obj)

\* Evaluate_LineNo: the expression handed to SBFrame.EvaluateExpression.
Evaluate_LineNo(obj) == "PyFrame_GetLineNumber(" \o obj \o ")"

\* The host's answer to GetValue() on the result of evaluating
\* PyFrame_GetLineNumber(f) in a frame whose f has the given value.
HostLineNo(expr, f) ==
    IF expr = "PyFrame_GetLineNumber(f)" /\ f = 1 THEN "12" ELSE None

\* is_evalframeex
is_evalframeex(fr) == fr.func = "PyEval_EvalFrameEx"

\* Python truthiness of a GetValue() result.
Truthy(s) == s # None /\ s # ""

\* The line py3bt prints for a frame.
FormatLine(id, filename, name, lineno) ==
    "frame #" \o ToString(id) \o ": "
        \o (IF Truthy(filename) THEN filename ELSE ".") \o " - "
        \o (IF Truthy(name) THEN name ELSE ".") \o ":"
        \o (IF Truthy(lineno) THEN lineno ELSE ".")

\* range(num_frames + 1): the loop bound off by one the other way.
LoopIndices_over(n) == [k \in 1..(n + 1) |-> k - 1]

\* range(num_frames - 1): the indices the loop visits, in order.
LoopIndices(n) == [k \in 1..(n - 1) |-> k - 1]

(* ------------------------------------------------------------------ py3bt *)

\* One iteration of the loop of py3bt, for frame index i of thread t: the
\* host calls it makes, the field calls with their outcome, the line it
\* prints (if any) and whether NullPyObjectPtr left the loop.
LoopBody(t, i) ==
    LET fr     == HostFrame(t, i)
        head   == << Call("GetFrameAtIndex", t, i, 0, ""),
                     Call("GetFunctionName", t, i, 0, "") >>
        fvar   == << Call("GetValueForVariablePath", t, i, 0, "f") >>
        r1     == field(fr.f, "f_code", t, i)
        f_code == r1.value
        r2     == field(f_code, "co_filename", t, i)
        r3     == field(f_code, "co_name", t, i)
        expr   == Evaluate_LineNo("f")
        getv(a) == << Call("GetValue", t, i, a, "") >>
        rec1   == << FieldRec(fr.f, "f_code", r1) >>
        rec2   == << FieldRec(f_code, "co_filename", r2) >>
        rec3   == << FieldRec(f_code, "co_name", r3) >>
    IN  IF ~is_evalframeex(fr)
        THEN [calls |-> head, fields |-> << >>, lines |-> << >>, raised |-> FALSE]
        ELSE IF r1.raised
        THEN [calls |-> head \o fvar \o r1.calls, fields |-> rec1,
              lines |-> << >>, raised |-> TRUE]
        ELSE IF r2.raised
        THEN [calls |-> head \o fvar \o r1.calls \o r2.calls,
              fields |-> rec1 \o rec2, lines |-> << >>, raised |-> TRUE]
        ELSE [calls |-> head \o fvar \o r1.calls
                          \o r2.calls \o getv(r2.value)
                          \o r3.calls \o getv(r3.value)
                          \o << Call("EvaluateExpression", t, i, 0, expr) >>
                          \o getv(0)
                          \o << Call("GetFrameID", t, i, 0, "") >>,
              fields |-> rec1 \o rec2 \o rec3,
              lines  |-> << [thread |-> t, index |-> i,
                             text |-> FormatLine(i, HostValue(r2.value),
                                                 HostValue(r3.value),
                                                 HostLineNo(expr, fr.f))] >>,
              raised |-> FALSE]

\* The thread py3bt works on, and the host calls made to find it.
\* debugger defaults to lldb.debugger; a thread argument that is not an
\* SBThread is replaced by the selected thread of the selected target's process.
DebuggerOf(d) == IF d = "None" THEN LldbDebugger ELSE d

\* The thread argument ignored: always the selected thread.
ThreadOf_selected(d, th) == selected[DebuggerOf(d)]

ThreadOf(d, th) ==
    IF th.kind # "SBThread" THEN selected[DebuggerOf(d)] ELSE th.id

ThreadCalls(d, th) ==
    << Call("GetSelectedTarget", 0, -1, 0, DebuggerOf(d)) >>
    \o (IF th.kind # "SBThread"
        THEN << Call("GetProcess", 0, -1, 0, DebuggerOf(d)),
                Call("GetSelectedThread", selected[DebuggerOf(d)], -1, 0,
                     DebuggerOf(d)) >>
        ELSE << >>)

NoArgs == [debugger |-> "None", thread |-> [kind |-> "None", id |-> 0]]
NoLast == [valid |-> FALSE, args |-> NoArgs, printed |-> << >>, outcome |-> "done"]

\* py3bt with its loop position kept at module level and never reset.
Invoke_keep(d, th) ==
    /\ pc = "idle"
    /\ args' = [debugger |-> d, thread |-> th]
    /\ thread' = ThreadOf(d, th)
    /\ num_frames' = Len(frames[ThreadOf(d, th)])
    /\ log' = ThreadCalls(d, th)
               \o << Call("GetNumFrames", ThreadOf(d, th), -1, 0, "") >>
    /\ pos' = pos
    /\ fields' = << >>
    /\ printed' = << >>
    /\ pc' = "loop"
    /\ last' = IF last.valid /\ last.args = [debugger |-> d, thread |-> th]
               THEN last ELSE NoLast
    /\ UNCHANGED <<hostVars, CMDS>>

\* py3bt is called (lines 148-155): up to num_frames = thread.GetNumFrames().
Invoke(d, th) ==
    /\ pc = "idle"
    /\ args' = [debugger |-> d, thread |-> th]
    /\ thread' = ThreadOf(d, th)
    /\ num_frames' = Len(frames[ThreadOf(d, th)])
    /\ log' = ThreadCalls(d, th)
               \o << Call("GetNumFrames", ThreadOf(d, th), -1, 0, "") >>
    /\ pos' = 0
    /\ fields' = << >>
    /\ printed' = << >>
    /\ pc' = "loop"
    /\ last' = IF last.valid /\ last.args = [debugger |-> d, thread |-> th]
               THEN last ELSE NoLast
    /\ UNCHANGED <<hostVars, CMDS>>

\* One iteration of "for i in range(num_frames - 1)" (lines 157-172).
LoopStep ==
    /\ pc = "loop"
    /\ pos < Len(LoopIndices(num_frames))
    /\ LET b == LoopBody(thread, LoopIndices(num_frames)[pos + 1])
       IN  /\ log' = log \o b.calls
           /\ fields' = fields \o b.fields
           /\ printed' = printed \o b.lines
           /\ pc' = IF b.raised THEN "raised" ELSE "loop"
    /\ pos' = pos + 1
    /\ UNCHANGED <<hostVars, CMDS, args, thread, num_frames, last>>

\* The range is exhausted: py3bt returns None.
LoopExit ==
    /\ pc = "loop"
    /\ pos >= Len(LoopIndices(num_frames))
    /\ pc' = "done"
    /\ UNCHANGED <<hostVars, CMDS, args, thread, num_frames, pos, log,
                   fields, printed, last>>

\* Control is back with the host, after a return or after NullPyObjectPtr
\* propagated out of py3bt.  The finished invocation is remembered.
Return ==
    /\ pc \in {"done", "raised"}
    /\ last' = [valid |-> TRUE, args |-> args, printed |-> printed,
                outcome |-> pc]
    /\ pc' = "idle"
    /\ UNCHANGED <<hostVars, CMDS, args, thread, num_frames, pos, log,
                   fields, printed>>

(* ------------------------------------------------------ __lldb_init_module *)

\* The module name used in the registration string (line 189).
RegisteredModule == "lldb_utils"

\* The name this module is imported under: the file is lldb_pyutils.py.
ModuleName == "lldb_pyutils"

\* The command string built for one entry of CMDS (lines 189-190).
CommandString(cmd) ==
    "command script add -f " \o RegisteredModule \o "." \o cmd[2] \o " " \o cmd[1]

\* The host's "command script add -f <path> <name>": binds name to path.
RECURSIVE Bind(_, _)
Bind(table, cmds) ==
    IF cmds = << >> THEN table
    ELSE Bind([table EXCEPT ![Head(cmds)[1]] = RegisteredModule \o "." \o Head(cmds)[2]],
              Tail(cmds))

\* __lldb_init_module: one HandleCommand per entry of CMDS, in order.
InitModule ==
    /\ pc = "idle"
    /\ handled' = [k \in 1..Len(CMDS) |-> CommandString(CMDS[k])]
    /\ commands' = Bind(commands, CMDS)
    /\ UNCHANGED <<frames, selected, CMDS, callVars, last>>

(* ------------------------------------------------------------------- host *)

\* The user selects another thread of the first process in the host.
HostSelectThread(t) ==
    /\ pc = "idle"
    /\ t \in ThreadsOf("dbg0")
    /\ selected["dbg0"] # t
    /\ selected' = [selected EXCEPT !["dbg0"] = t]
    /\ last' = NoLast
    /\ UNCHANGED <<frames, commands, handled, CMDS, callVars>>

(* ---------------------------------------------------------- specification *)

\* The stacks of the threads other than thread 1.
OtherStacks ==
    [t \in {2, 3} |->
        IF t = 2
        THEN << [func |-> "PyEval_EvalFrameEx", f |-> 1],
                [func |-> "PyEval_EvalFrameEx", f |-> 1],
                [func |-> "PyEval_EvalFrameExx", f |-> 1] >>
        ELSE << [func |-> "PyEval_EvalFrameExx", f |-> 1],
                [func |-> "PyEval_EvalFrameEx", f |-> 2] >>]

Init ==
    /\ frames \in { [t \in Threads |-> IF t = 1 THEN s ELSE OtherStacks[t]] :
                     s \in Stacks(MaxFrames) }
    /\ selected = [d \in Debuggers |-> IF d = "dbg0" THEN 1 ELSE 3]
    /\ commands = [c \in {"py3-bt"} |-> ""]
    /\ handled = << >>
    /\ CMDS = << <<"py3-bt", "py3bt">> >>
    /\ pc = "idle"
    /\ args = NoArgs
    /\ thread = 1
    /\ num_frames = 0
    /\ pos = 0
    /\ log = << >>
    /\ fields = << >>
    /\ printed = << >>
    /\ last = NoLast

Next ==
    \/ \E d \in DebuggerArgs, th \in ThreadArgs : Invoke(d, th)
    \/ LoopStep
    \/ LoopExit
    \/ Return
    \/ InitModule
    \/ \E t \in Threads : HostSelectThread(t)

Spec == Init /\ [][Next]_vars

\* The invocations of py3bt alone.  A callback runs to its end before the
\* host does anything else, so the other actions never interleave with it.
NextCall ==
    \/ \E d \in DebuggerArgs, th \in ThreadArgs : Invoke(d, th)
    \/ LoopStep
    \/ LoopExit
    \/ Return

\* The interpreter keeps executing a callback that has been entered.
FairSpec ==
    Init /\ [][NextCall]_vars /\ WF_vars(LoopStep) /\ WF_vars(LoopExit)

(* ----------------------------------------------------------------- claims *)

EvalName == "PyEval_EvalFrameEx"
LineNoExpr == "PyFrame_GetLineNumber(f)"

\* The frames py3bt asked the host for, in the order asked.
Requests == SelectSeq(log, LAMBDA e : e.call = "GetFrameAtIndex")

\* The debugger an invocation with these arguments works on.
ArgDebugger == IF args.debugger = "None" THEN "dbg0" ELSE args.debugger

\* C1: when py3bt has returned, every frame of the thread (index 0..n-1)
\* whose function name is PyEval_EvalFrameEx has a printed line.
C1_AllEvalFramesPrinted ==
    pc = "done" =>
        \A i \in 0..(Len(frames[thread]) - 1) :
            frames[thread][i + 1].func = EvalName =>
                \E k \in DOMAIN printed :
                    printed[k].thread = thread /\ printed[k].index = i

\* C2: with an SBThread argument every frame inspected belongs to that
\* thread and the selected thread is never queried; otherwise the frames
\* inspected are those of the selected thread of the process of the
\* debugger's selected target.
C2_ThreadChoice ==
    pc # "idle" =>
        /\ args.thread.kind = "SBThread" =>
              /\ \A k \in DOMAIN log :
                    log[k].index >= 0 => log[k].thread = args.thread.id
              /\ \A k \in DOMAIN log : log[k].call # "GetSelectedThread"
        /\ args.thread.kind # "SBThread" =>
              /\ \A k \in DOMAIN log :
                    log[k].index >= 0 => log[k].thread = selected[ArgDebugger]
              /\ \E k \in DOMAIN log :
                    /\ log[k].call = "GetSelectedThread"
                    /\ log[k].arg = ArgDebugger
        /\ num_frames = Len(frames[IF args.thread.kind = "SBThread"
                                   THEN args.thread.id
                                   ELSE selected[ArgDebugger]])

\* C2 happens: an SBThread other than the selected thread was walked.
C2_Witness ==
    /\ pc = "done"
    /\ args.thread = [kind |-> "SBThread", id |-> 2]
    /\ selected["dbg0"] = 1
    /\ Len(Requests) = 2

\* C3: after __lldb_init_module every entry of CMDS has been registered by
\* exactly one HandleCommand call, in CMDS order, binding the command name
\* to the function of that name in this module (lldb_pyutils).
C3_RegisteredInModule ==
    handled # << >> =>
        /\ Len(handled) = Len(CMDS)
        /\ \A k \in DOMAIN CMDS :
              handled[k] = "command script add -f " \o ModuleName \o "."
                               \o CMDS[k][2] \o " " \o CMDS[k][1]
        /\ commands["py3-bt"] = "lldb_pyutils.py3bt"

C5_WalksFrames ==
    /\ \A k \in DOMAIN log :
          (log[k].index >= 0
             /\ HostFrame(log[k].thread, log[k].index).func # EvalName)
          => log[k].call \in {"GetFrameAtIndex", "GetFunctionName"}
    /\ \A k \in DOMAIN printed :
          /\ HostFrame(printed[k].thread, printed[k].index).func = EvalName
          /\ Cardinality({ j \in DOMAIN log :
                             /\ log[j].call = "EvaluateExpression"
                             /\ log[j].thread = printed[k].thread
                             /\ log[j].index = printed[k].index }) = 1
    /\ \A j \in DOMAIN log :
          log[j].call = "EvaluateExpression" =>
              /\ log[j].arg = LineNoExpr
              /\ \E k \in DOMAIN printed :
                    /\ printed[k].thread = log[j].thread
                    /\ printed[k].index = log[j].index

\* C5 happens: a walk met a frame of another function and printed a line.
C5_Witness ==
    /\ pc = "done"
    /\ Len(printed) >= 1
    /\ \E k \in DOMAIN log :
          /\ log[k].call = "GetFunctionName"
          /\ HostFrame(log[k].thread, log[k].index).func # EvalName

\* C6: two invocations of py3bt with the same arguments against the same
\* host state print the same lines and end the same way, and no step
\* changes CMDS.
C6_SameOutput ==
    (pc \in {"done", "raised"} /\ last.valid) =>
        /\ printed = last.printed
        /\ pc = last.outcome

C6_Stateless == []C6_SameOutput /\ [][CMDS' = CMDS]_vars

\* C6 happens: a second invocation with the same arguments has finished
\* with lines printed, after the module was initialised.
C6_Witness ==
    /\ pc = "done"
    /\ last.valid
    /\ last.args = args
    /\ Len(printed) >= 2
    /\ handled # << >>

\* C7: py3bt asks the host only for frame indices within 0..n-1, each at
\* most once and in strictly increasing order; the printed lines are in
\* increasing frame index, at most one per frame; with n = 0 no frame is
\* asked for and nothing is printed; and py3bt terminates.
C7_Order ==
    /\ \A k \in DOMAIN Requests :
          /\ Requests[k].thread = thread
          /\ Requests[k].index \in 0..(Len(frames[thread]) - 1)
    /\ \A j, k \in DOMAIN Requests :
          j < k => Requests[j].index < Requests[k].index
    /\ \A j, k \in DOMAIN printed :
          j < k => printed[j].index < printed[k].index
    /\ \A k \in DOMAIN printed :
          \E j \in DOMAIN Requests : Requests[j].index = printed[k].index
    /\ Len(frames[thread]) = 0 => Requests = << >> /\ printed = << >>

C7_Terminates == []C7_Order /\ (pc = "loop" ~> pc \in {"done", "raised"})

\* C7 happens: a walk asked for two frames and printed a line for each.
C7_Witness ==
    /\ pc = "done"
    /\ thread = 1
    /\ Len(Requests) >= 2
    /\ Len(printed) >= 2

====
